---------------------------- MODULE Spec2Model ----------------------------
(***************************************************************************)
(* Vendor-qualification front end (Ridhi-web/Blind-vendor, frontend-vite). *)
(*                                                                         *)
(* The model covers                                                        *)
(*   - the three cards of the React application and the App component     *)
(*     that owns the registry and the debug information                    *)
(*     (App.tsx, VerifyQualification, CheckCompliance, VendorRegistry);    *)
(*   - VendorQualificationService (services/ContractService.ts);           *)
(*   - the hook wrappers of hooks/useContractMethods.ts.                   *)
(*                                                                         *)
(* JavaScript values are tagged tuples (JSBool, Num, NaN, JSNull, ...),    *)
(* JavaScript objects are records holding exactly the keys the object      *)
(* has, so that  'error' in result  is  "error" \in DOMAIN result.         *)
(* The text of a form field is a sequence of one-character strings.        *)
(*                                                                         *)
(* A click handler of a card takes the text its form fields hold at the    *)
(* click as its input.  Every handler is an async function without an      *)
(* await: it runs to completion inside the click event, and React commits  *)
(* the state updates it queued before the next event is dispatched, so     *)
(* one action is the handler followed by that commit.                      *)
(***************************************************************************)
EXTENDS Integers, Sequences, FiniteSets, TLC

(***************************************************************************)
(* Bounds of the model.                                                    *)
(***************************************************************************)
\* Longest run of digits in a form-field text.
MaxDigits == 1

(***************************************************************************)
(* JavaScript values.                                                      *)
(***************************************************************************)
JSBool(b) == <<"boolean", b>>
JSNull == <<"null">>
Undefined == <<"undefined">>
Num(n) == <<"number", n>>
NaN == <<"NaN">>

\* The state a useState<any>(null) hook starts in.
Null == [null |-> TRUE]

IsNumber(v) == v[1] = "number"

\* Variant: the comparison written  a > b.
GreaterThan(a, b) == IsNumber(a) /\ IsNumber(b) /\ a[2] > b[2]

\* JavaScript  a >= b  on numbers: false as soon as one side is NaN.
GreaterOrEqual(a, b) == IsNumber(a) /\ IsNumber(b) /\ a[2] >= b[2]

\* JavaScript truthiness of a string: only the empty string is falsy.
StringIsFalsy(text) == text = <<>>

(***************************************************************************)
(* parseInt(string) with no radix: leading white space is skipped, one     *)
(* sign is read, then the longest prefix of digits; no digit gives NaN.    *)
(* Whatever follows the digits is ignored.  "0x" selects radix 16.         *)
(* (Numbers are IEEE doubles in the source: the integers of the model stay *)
(* far below 2^53, where every integer is exact.)                          *)
(***************************************************************************)
DecimalChars == {"0", "1", "2", "3", "4", "5", "6", "7", "8", "9"}
HexChars == DecimalChars \cup {"a", "b", "c", "d", "e", "f"}

DigitValue(c) ==
  CASE c = "0" -> 0 [] c = "1" -> 1 [] c = "2" -> 2 [] c = "3" -> 3
    [] c = "4" -> 4 [] c = "5" -> 5 [] c = "6" -> 6 [] c = "7" -> 7
    [] c = "8" -> 8 [] c = "9" -> 9 [] c = "a" -> 10 [] c = "b" -> 11
    [] c = "c" -> 12 [] c = "d" -> 13 [] c = "e" -> 14 [] c = "f" -> 15

IsWhiteSpace(c) == c \in {" "}

RECURSIVE TrimStart(_)
TrimStart(s) ==
  IF s # <<>> /\ IsWhiteSpace(Head(s)) THEN TrimStart(Tail(s)) ELSE s

RECURSIVE DigitPrefix(_, _)
DigitPrefix(s, digits) ==
  IF s # <<>> /\ Head(s) \in digits
    THEN <<Head(s)>> \o DigitPrefix(Tail(s), digits)
    ELSE <<>>

RECURSIVE DigitsToNat(_, _, _)
DigitsToNat(ds, radix, acc) ==
  IF ds = <<>> THEN acc
  ELSE DigitsToNat(Tail(ds), radix, acc * radix + DigitValue(Head(ds)))

parseInt(text) ==
  LET s == TrimStart(text)
      signed == s # <<>> /\ Head(s) \in {"-", "+"}
      negative == s # <<>> /\ Head(s) = "-"
      body == IF signed THEN Tail(s) ELSE s
      hex == Len(body) >= 2 /\ body[1] = "0" /\ body[2] \in {"x", "X"}
      rest == IF hex THEN Tail(Tail(body)) ELSE body
      ds == DigitPrefix(rest, IF hex THEN HexChars ELSE DecimalChars)
      magnitude == DigitsToNat(ds, IF hex THEN 16 ELSE 10, 0)
  IN  IF ds = <<>> THEN NaN
      ELSE Num(IF negative THEN 0 - magnitude ELSE magnitude)

(***************************************************************************)
(* Template literals: `${x}` is String(x).                                 *)
(***************************************************************************)
DigitString(d) ==
  CASE d = 0 -> "0" [] d = 1 -> "1" [] d = 2 -> "2" [] d = 3 -> "3"
    [] d = 4 -> "4" [] d = 5 -> "5" [] d = 6 -> "6" [] d = 7 -> "7"
    [] d = 8 -> "8" [] d = 9 -> "9"

RECURSIVE NatToString(_)
NatToString(n) ==
  IF n < 10 THEN DigitString(n)
  ELSE NatToString(n \div 10) \o DigitString(n % 10)

NumberToString(v) ==
  IF ~IsNumber(v) THEN "NaN"
  ELSE IF v[2] < 0 THEN "-" \o NatToString(0 - v[2])
  ELSE NatToString(v[2])

BoolToString(b) == IF b THEN "true" ELSE "false"

\* The text of a form field as a string.
RECURSIVE TextToString(_)
TextToString(text) ==
  IF text = <<>> THEN "" ELSE Head(text) \o TextToString(Tail(text))

(***************************************************************************)
(* The texts a form field is given: an optional minus sign, at most        *)
(* MaxDigits digits, and an optional exponent part (an  <input             *)
(* type="number">  accepts "1e1"), so that every branch of parseInt above  *)
(* except white space and radix 16 is taken.                               *)
(***************************************************************************)
InputDigits == {"0", "1"}
DigitRuns == UNION {[1..k -> InputDigits] : k \in 0..MaxDigits}
Texts ==
  {sign \o ds \o suffix : sign \in {<<>>, <<"-">>}, ds \in DigitRuns,
                          suffix \in {<<>>, <<"e", "1">>}}

\* A text that is a decimal integer literal, and the integer it denotes
\* (by place value, independently of parseInt).
IsIntegerText(text) ==
  \E sign \in {<<>>, <<"-">>} : \E ds \in DigitRuns :
    ds # <<>> /\ text = sign \o ds

RECURSIVE PowerOfTen(_)
PowerOfTen(k) == IF k = 0 THEN 1 ELSE 10 * PowerOfTen(k - 1)

RECURSIVE PlaceValueSum(_, _)
PlaceValueSum(ds, i) ==
  IF i > Len(ds) THEN 0
  ELSE DigitValue(ds[i]) * PowerOfTen(Len(ds) - i) + PlaceValueSum(ds, i + 1)

IntegerOf(text) ==
  IF text # <<>> /\ Head(text) = "-"
    THEN 0 - PlaceValueSum(Tail(text), 1)
    ELSE PlaceValueSum(text, 1)

\* The texts of the concrete scenarios of the design document:
\* 85 against 80 with salt 12345, 75 against 80, vendors 999 and 123.
ScenarioScores == {<<"8", "5">>, <<"7", "5">>}
ScenarioThreshold == <<"8", "0">>
ScenarioSalt == <<"1", "2", "3", "4", "5">>
ScenarioIds == {<<>>, <<"9", "9", "9">>, <<"1", "2", "3">>}

\* What  new Date().toISOString()  returns.
Now == "ISO-8601 instant"

(***************************************************************************)
(* State.                                                                  *)
(***************************************************************************)
VARIABLES
  \* App
  debugInfo,          \* the envelope the debug console shows, or Null
  vendorsRegistry,    \* Set<number>
  \* VerifyQualification
  vendorScore, minimumThreshold, salt,   \* form fields (text)
  vqResult, vqLoading,
  \* CheckCompliance
  certification, insurance, paymentHistory,   \* checkboxes
  ccResult, ccLoading,
  \* VendorRegistry
  vrResult, statusResult, vrLoading,
  \* history: the ids handed to onQualificationRecord so far
  recorded,
  \* VendorQualificationService
  contractAddress, contractInstance,
  \* the ledger of the contract a bound instance talks to
  ledger,
  \* hook wrapper (useContractMethods.ts): its three states, and the calls
  \* it has started whose awaited service call has not resumed yet
  hookLoading, hookResult, hookError, inflight,
  \* call sites: the envelope the latest call returned to its caller, and
  \* the exception that escaped to a caller, if any
  returned, escaped,
  \* history: what made the latest call fail, if it failed
  failure,
  \* history: the ids handed to the service's recordQualification so far
  requested,
  \* React's queue of state updates that handlers have made and the next
  \* render has not applied yet, and how many the latest render applied
  updateQueue, committed,
  \* exampleCompleteWorkflow: where a run of it stands, and the envelopes
  \* its awaited calls have returned to it so far
  workflowPc, workflowCalls

appVars == <<debugInfo, vendorsRegistry>>
verifyVars == <<vendorScore, minimumThreshold, salt, vqResult, vqLoading>>
complianceVars ==
  <<certification, insurance, paymentHistory, ccResult, ccLoading>>
registryVars == <<vrResult, statusResult, vrLoading>>
serviceVars == <<contractAddress, contractInstance, ledger>>
hookVars == <<hookLoading, hookResult, hookError, inflight>>
callerVars == <<returned, escaped, failure, requested>>
workflowVars == <<workflowPc, workflowCalls>>
backendVars == <<serviceVars, hookVars, callerVars, workflowVars>>
schedulerVars == <<updateQueue, committed>>
cardVars ==
  <<appVars, verifyVars, complianceVars, registryVars, recorded, schedulerVars>>
vars == <<cardVars, backendVars>>

(***************************************************************************)
(* App (App.tsx).                                                          *)
(***************************************************************************)
\* Variant: the updater removes an id that is already there.
addTogglingVendor(prev, vendorId) ==
  IF vendorId \in prev THEN prev \ {vendorId} ELSE prev \cup {vendorId}

\* Variant: the updater builds the new set without the previous one,
\* new Set([vendorId]).
addForgettingPrevious(prev, vendorId) == {vendorId}

\* The updater  prev => new Set([...Array.from(prev), vendorId]).
\* Set membership is SameValueZero: NaN is equal to NaN.
addQualifiedVendor(prev, vendorId) == prev \cup {vendorId}

\* Variant: the lookup is made with the field's text; the set holds numbers.
isQualifiedByText(registry, vendorId) == FALSE

\* Variant: the answer is whether the registry holds anything at all.
isQualifiedIfAnyRecorded(registry, vendorId) == registry # {}

\* vendorsRegistry.has(vendorId), on the registry of the committed render.
isQualified(registry, vendorId) == vendorId \in registry

\* updateDebugInfo(info): setDebugInfo(info).
updateDebugInfo(info) == info

(***************************************************************************)
(* VerifyQualification (components/VerifyQualification.tsx).               *)
(***************************************************************************)
VerifyResponse(score, threshold, saltText) ==
  LET scoreNum == parseInt(score)
      thresholdNum == parseInt(threshold)
      qualifies == GreaterOrEqual(scoreNum, thresholdNum)
  IN  [method |-> "verifyQualification",
       params |-> [vendorScore |-> scoreNum,
                   minimumThreshold |-> thresholdNum,
                   salt |-> parseInt(saltText)],
       result |-> JSBool(qualifies),
       timestamp |-> Now,
       contractCall |->
         [circuit |-> "verifyQualification",
          input |-> "[" \o NumberToString(scoreNum) \o ", "
                        \o NumberToString(thresholdNum) \o ", "
                        \o TextToString(saltText) \o "]",
          output |-> "[" \o BoolToString(qualifies) \o "]"]]

\* Variant: the salt may be left empty.
VerifyScoreOrThresholdMissing(score, threshold, saltText) ==
  StringIsFalsy(score) \/ StringIsFalsy(threshold)

\* if (!vendorScore || !minimumThreshold || !salt) { alert; return }
VerifyFieldsMissing(score, threshold, saltText) ==
  StringIsFalsy(score) \/ StringIsFalsy(threshold) \/ StringIsFalsy(saltText)

\* Variant: a verification that qualifies also enters the score into the
\* registry.
handleVerifyRecording ==
  IF VerifyFieldsMissing(vendorScore, minimumThreshold, salt)
    THEN UNCHANGED vars
    ELSE LET response == VerifyResponse(vendorScore, minimumThreshold, salt)
         IN  /\ vqResult' = response
             /\ debugInfo' = updateDebugInfo(response)
             /\ vqLoading' = FALSE
             /\ vendorsRegistry' =
                  IF response.result = JSBool(TRUE)
                    THEN vendorsRegistry \cup {response.params.vendorScore}
                    ELSE vendorsRegistry
             /\ UNCHANGED <<vendorScore, minimumThreshold, salt,
                            complianceVars, registryVars, recorded, backendVars, schedulerVars>>

\* setLoading(true) ... finally setLoading(false), batched into one commit.
handleVerify ==
  IF VerifyFieldsMissing(vendorScore, minimumThreshold, salt)
    THEN UNCHANGED vars
    ELSE LET response == VerifyResponse(vendorScore, minimumThreshold, salt)
         IN  /\ vqResult' = response
             /\ debugInfo' = updateDebugInfo(response)
             /\ vqLoading' = FALSE
             /\ UNCHANGED <<vendorsRegistry, vendorScore, minimumThreshold,
                            salt, complianceVars, registryVars, recorded, backendVars, schedulerVars>>

(***************************************************************************)
(* CheckCompliance (components/CheckCompliance.tsx).                       *)
(***************************************************************************)
\* Variant: the payment history does not enter the conjunction.
ComplianceResponseWithoutPayment(cert, insur, payment) ==
  LET compliant == cert /\ insur
  IN  [method |-> "checkCompliance",
       params |-> [certificationValid |-> cert,
                   insuranceActive |-> insur,
                   paymentHistoryGood |-> payment],
       result |-> JSBool(compliant),
       timestamp |-> Now,
       contractCall |->
         [circuit |-> "checkCompliance",
          input |-> "[" \o BoolToString(cert) \o ", " \o BoolToString(insur)
                        \o ", " \o BoolToString(payment) \o "]",
          output |-> "[" \o BoolToString(compliant) \o "]"]]

ComplianceResponse(cert, insur, payment) ==
  LET compliant == cert /\ insur /\ payment
  IN  [method |-> "checkCompliance",
       params |-> [certificationValid |-> cert,
                   insuranceActive |-> insur,
                   paymentHistoryGood |-> payment],
       result |-> JSBool(compliant),
       timestamp |-> Now,
       contractCall |->
         [circuit |-> "checkCompliance",
          input |-> "[" \o BoolToString(cert) \o ", " \o BoolToString(insur)
                        \o ", " \o BoolToString(payment) \o "]",
          output |-> "[" \o BoolToString(compliant) \o "]"]]

\* onChange of the three checkboxes.
setCertification(checked) ==
  /\ certification' = checked
  /\ UNCHANGED <<appVars, verifyVars, insurance, paymentHistory, ccResult,
                 ccLoading, registryVars, recorded, backendVars, schedulerVars>>

setInsurance(checked) ==
  /\ insurance' = checked
  /\ UNCHANGED <<appVars, verifyVars, certification, paymentHistory, ccResult,
                 ccLoading, registryVars, recorded, backendVars, schedulerVars>>

setPaymentHistory(checked) ==
  /\ paymentHistory' = checked
  /\ UNCHANGED <<appVars, verifyVars, certification, insurance, ccResult,
                 ccLoading, registryVars, recorded, backendVars, schedulerVars>>

handleCheckCompliance ==
  LET response == ComplianceResponse(certification, insurance, paymentHistory)
  IN  /\ ccResult' = response
      /\ debugInfo' = updateDebugInfo(response)
      /\ ccLoading' = FALSE
      /\ UNCHANGED <<vendorsRegistry, verifyVars, certification, insurance,
                     paymentHistory, registryVars, recorded, backendVars, schedulerVars>>

(***************************************************************************)
(* VendorRegistry (components/VendorRegistry.tsx).  The text the field     *)
(* holds at the click is the input of the action; handleRecord leaves      *)
(* recordVendorId empty again (setRecordVendorId('')).                     *)
(***************************************************************************)
RecordResponse(vendorNum) ==
  [method |-> "recordQualification",
   params |-> [vendorId |-> vendorNum],
   result |-> JSNull,
   timestamp |-> Now,
   contractCall |->
     [circuit |-> "recordQualification",
      input |-> "[" \o NumberToString(vendorNum) \o "]",
      output |-> "Vendor marked as qualified in ledger",
      ledgerUpdate |->
        "vendors.markQualified(" \o NumberToString(vendorNum) \o ")"]]

handleRecord(recordVendorId) ==
  IF StringIsFalsy(recordVendorId)
    THEN UNCHANGED vars
    ELSE LET vendorNum == parseInt(recordVendorId)
             response == RecordResponse(vendorNum)
         IN  /\ vendorsRegistry' = addQualifiedVendor(vendorsRegistry, vendorNum)
             /\ recorded' = recorded \cup {vendorNum}
             /\ vrResult' = response
             /\ debugInfo' = updateDebugInfo(response)
             /\ vrLoading' = FALSE
             /\ UNCHANGED <<verifyVars, complianceVars, statusResult, backendVars, schedulerVars>>

StatusResponse(vendorNum, qualified) ==
  [method |-> "isVendorQualified",
   params |-> [vendorId |-> vendorNum],
   result |-> JSBool(qualified),
   timestamp |-> Now,
   contractCall |->
     [circuit |-> "isVendorQualified",
      input |-> "[" \o NumberToString(vendorNum) \o "]",
      output |-> "[" \o BoolToString(qualified) \o "]",
      status |-> IF qualified THEN "QUALIFIED" ELSE "NOT QUALIFIED"]]

\* The envelope handleCheck builds when the app's registry is the given one.
StatusEnvelopeFrom(registry, vendorNum) ==
  StatusResponse(vendorNum, isQualified(registry, vendorNum))

handleCheck(checkVendorId) ==
  IF StringIsFalsy(checkVendorId)
    THEN UNCHANGED vars
    ELSE LET vendorNum == parseInt(checkVendorId)
             response ==
               StatusResponse(vendorNum, isQualified(vendorsRegistry, vendorNum))
         IN  /\ statusResult' = response
             /\ debugInfo' = updateDebugInfo(response)
             /\ vrLoading' = FALSE
             /\ UNCHANGED <<vendorsRegistry, verifyVars, complianceVars,
                            vrResult, recorded, backendVars, schedulerVars>>

(***************************************************************************)
(* Several records before a render.  A handler's set-state calls are       *)
(* queued; the next render applies the queue in order, each functional     *)
(* updater to the registry the one before it returned.                     *)
(***************************************************************************)
\* Most updates queued before a render.
MaxPending == 2

\* Variant: each update is computed from the registry of the render the
\* handler ran in, setVendorsRegistry(new Set([...vendorsRegistry, id])).
ApplyUpdatersToRendered(registry, queue) ==
  IF queue = <<>> THEN registry
  ELSE registry \cup {queue[Len(queue)].vendorId}

\* React applying the queued updaters  prev => new Set([...prev, vendorId]).
RECURSIVE ApplyUpdaters(_, _)
ApplyUpdaters(registry, queue) ==
  IF queue = <<>> THEN registry
  ELSE ApplyUpdaters(addQualifiedVendor(registry, Head(queue).vendorId),
                     Tail(queue))

\* handleRecord up to its return: its updates are queued, nothing is
\* rendered yet.
handleRecordQueued(recordVendorId) ==
  IF StringIsFalsy(recordVendorId)
    THEN UNCHANGED vars
    ELSE LET vendorNum == parseInt(recordVendorId)
             response == RecordResponse(vendorNum)
         IN  /\ Len(updateQueue) < MaxPending
             /\ updateQueue' = Append(updateQueue,
                                      [vendorId |-> vendorNum,
                                       response |-> response])
             /\ recorded' = recorded \cup {vendorNum}
             /\ UNCHANGED <<appVars, verifyVars, complianceVars,
                            registryVars, committed, backendVars>>

\* The render that follows: the queue is applied; setResult and
\* setDebugInfo keep the value of their last call.
commitRender ==
  /\ updateQueue # <<>>
  /\ vendorsRegistry' = ApplyUpdaters(vendorsRegistry, updateQueue)
  /\ vrResult' = updateQueue[Len(updateQueue)].response
  /\ debugInfo' = updateDebugInfo(updateQueue[Len(updateQueue)].response)
  /\ vrLoading' = FALSE
  /\ committed' = Len(updateQueue)
  /\ updateQueue' = <<>>
  /\ UNCHANGED <<verifyVars, complianceVars, statusResult, recorded,
                 backendVars>>

(***************************************************************************)
(* VendorQualificationService (services/ContractService.ts).               *)
(***************************************************************************)
JSString(s) == <<"string", s>>
JSError(message) == <<"Error", message>>
JSArray(elements) == <<"array", elements>>
IsArray(v) == v[1] = "array"

\* CONTRACT_CONFIG.ADDRESS, and another address a caller may construct a
\* service with.
CONFIG_ADDRESS ==
  "2aa78f99159e7662a1fe3658f402ef4e64ff77c8769cb07368ac1702696301f8"
ContractAddresses == {CONFIG_ADDRESS, "another contract address"}

\* An instantiated contract, as handed to bindContractInstance.
ContractInstance == <<"object", "Midnight contract">>

NotAttachedMessage ==
  "Contract instance not attached. Call bindContractInstance() with a real Midnight contract."

\* The calls of the design document's scenarios and of the guide's tests.
VerifyRequests ==
  {[method |-> "verifyQualification",
    params |-> [vendorScore |-> s, minimumThreshold |-> 80, salt |-> 12345]] :
     s \in {85, 75}}
ComplianceRequests ==
  {[method |-> "checkCompliance",
    params |-> [certificationValid |-> TRUE, insuranceActive |-> b,
                paymentHistoryGood |-> TRUE]] : b \in BOOLEAN}
RecordRequests ==
  {[method |-> "recordQualification", params |-> [vendorId |-> v]] :
     v \in {999}}
StatusRequests ==
  {[method |-> "isVendorQualified", params |-> [vendorId |-> v]] :
     v \in {999, 123}}
Requests ==
  VerifyRequests \cup ComplianceRequests \cup RecordRequests \cup StatusRequests

\* The calls made through the hook: one of each kind of operation (pure,
\* mutating, reading the ledger).
HookRequests ==
  {r \in Requests :
     \/ r.method = "recordQualification"
     \/ r.method = "isVendorQualified" /\ r.params.vendorId = 123
     \/ r.method = "verifyQualification" /\ r.params.vendorScore = 85}

\* The vendor ids typed into the VendorRegistry card next to the service.
ServiceIdTexts == {<<"9", "9", "9">>, <<"1", "2", "3">>}

\* What a circuit of contract/src/blinding.compact computes, and the ledger
\* it leaves (the contract is not part of the front end's sources).
ContractResult(request, led) ==
  LET p == request.params
  IN  CASE request.method = "verifyQualification" ->
             JSBool(p.vendorScore >= p.minimumThreshold)
        [] request.method = "checkCompliance" ->
             JSBool(p.certificationValid /\ p.insuranceActive
                    /\ p.paymentHistoryGood)
        [] request.method = "recordQualification" -> Undefined
        [] request.method = "isVendorQualified" -> JSBool(p.vendorId \in led)

ContractLedgerAfter(request, led) ==
  IF request.method = "recordQualification"
    THEN led \cup {request.params.vendorId}
    ELSE led

\* What a call of a method of the bound instance does: it returns the
\* circuit's value, bare or as a one-element array (the service reads
\* both), or it throws an Error or something that is no Error.
ThrownValues ==
  {JSError("network failure"), JSError(""), JSString("timeout")}

ContractOutcomes(request, led) ==
  LET value == ContractResult(request, led)
      raws == IF value = Undefined
                THEN {Undefined, JSArray(<<>>)}
                ELSE {value, JSArray(<<value>>)}
  IN  {[kind |-> "returned", raw |-> raw,
        ledger |-> ContractLedgerAfter(request, led)] : raw \in raws}
      \cup {[kind |-> "thrown", error |-> e, ledger |-> led] :
              e \in ThrownValues}

\* bindContractInstance(instance)
bindContractInstance(instance) ==
  /\ contractInstance' = instance
  /\ UNCHANGED <<cardVars, contractAddress, ledger, hookVars, callerVars,
                 workflowVars>>

\* Variant: the instance is handed out without the check.
getContractUnchecked(instance) == [returns |-> instance]

\* getContractOrThrow()
getContractOrThrow(instance) ==
  IF instance = JSNull
    THEN [throws |-> JSError(NotAttachedMessage)]
    ELSE [returns |-> instance]

\* error instanceof Error ? error.message : 'Unknown error'
ErrorMessage(error) ==
  IF error[1] = "Error" THEN error[2] ELSE "Unknown error"

\* Variant: the value is taken as the contract returned it, array or not.
SelfOnly(raw) == raw

\* Array.isArray(result) ? result[0] : result
FirstOrSelf(raw) ==
  IF IsArray(raw)
    THEN (IF raw[2] = <<>> THEN Undefined ELSE raw[2][1])
    ELSE raw

\* String(v) of a value a circuit returns.
ValueToString(v) ==
  IF v[1] = "boolean" THEN BoolToString(v[2]) ELSE "undefined"

\* JSON.stringify(v): undefined for undefined.
JSONStringify(v) ==
  IF v[1] = "boolean" THEN JSString(BoolToString(v[2]))
  ELSE IF IsArray(v)
    THEN JSString(IF v[2] = <<>> THEN "[]"
                  ELSE "[" \o ValueToString(v[2][1]) \o "]")
  ELSE Undefined

\* Array.isArray(result) ? `[${result[0]}]` : JSON.stringify(result)
OutputOf(raw) ==
  IF IsArray(raw)
    THEN JSString("[" \o ValueToString(FirstOrSelf(raw)) \o "]")
    ELSE JSONStringify(raw)

IntToString(n) == NumberToString(Num(n))

\* Variant: the catch clause also reports a result of false.
ErrorEnvelopeWithResult(request, error, address) ==
  [method |-> request.method,
   params |-> request.params,
   result |-> JSBool(FALSE),
   error |-> ErrorMessage(error),
   timestamp |-> Now,
   contractAddress |-> address]

\* The envelope of the catch clause of each method.
ErrorEnvelope(request, error, address) ==
  [method |-> request.method,
   params |-> request.params,
   error |-> ErrorMessage(error),
   timestamp |-> Now,
   contractAddress |-> address]

verifyQualificationEnvelope(params, raw, address) ==
  [method |-> "verifyQualification",
   params |-> [vendorScore |-> params.vendorScore,
               minimumThreshold |-> params.minimumThreshold,
               salt |-> IntToString(params.salt)],
   result |-> FirstOrSelf(raw),
   contractCall |->
     [circuit |-> "verifyQualification",
      input |-> "[" \o IntToString(params.vendorScore) \o ", "
                    \o IntToString(params.minimumThreshold) \o ", "
                    \o IntToString(params.salt) \o "]",
      output |-> OutputOf(raw),
      zkProof |-> "Proves vendorScore (" \o IntToString(params.vendorScore)
                    \o ") >= minimumThreshold ("
                    \o IntToString(params.minimumThreshold)
                    \o ") without revealing score",
      privacyLevel |-> "FULL_ZERO_KNOWLEDGE"],
   timestamp |-> Now,
   contractAddress |-> address,
   transactionHash |-> Undefined,
   gasUsed |-> Undefined]

\* flag ? (U+2713 check mark) : (U+2717 ballot x)
CriterionMark(flag) == IF flag THEN "U+2713" ELSE "U+2717"

checkComplianceEnvelope(params, raw, address) ==
  [method |-> "checkCompliance",
   params |-> params,
   result |-> FirstOrSelf(raw),
   contractCall |->
     [circuit |-> "checkCompliance",
      input |-> "[" \o BoolToString(params.certificationValid) \o ", "
                    \o BoolToString(params.insuranceActive) \o ", "
                    \o BoolToString(params.paymentHistoryGood) \o "]",
      output |-> OutputOf(raw),
      logic |-> "certification AND insurance AND paymentHistory",
      criteria |->
        [certification |-> CriterionMark(params.certificationValid),
         insurance |-> CriterionMark(params.insuranceActive),
         paymentHistory |-> CriterionMark(params.paymentHistoryGood)],
      privacyLevel |-> "FULL_ZERO_KNOWLEDGE"],
   timestamp |-> Now,
   contractAddress |-> address,
   transactionHash |-> Undefined,
   gasUsed |-> Undefined]

recordQualificationEnvelope(params, raw, address) ==
  [method |-> "recordQualification",
   params |-> [vendorId |-> params.vendorId],
   contractCall |->
     [circuit |-> "recordQualification",
      input |-> "[" \o IntToString(params.vendorId) \o "]",
      output |-> IF IsArray(raw) THEN JSONStringify(raw)
                 ELSE JSString("Vendor marked as qualified"),
      ledgerUpdate |->
        "vendors.markQualified(" \o IntToString(params.vendorId) \o ")",
      privacyLevel |-> "PUBLIC",
      note |-> "This is a public transaction visible on-chain"],
   timestamp |-> Now,
   contractAddress |-> address,
   transactionHash |-> Undefined,
   gasUsed |-> Undefined]

isVendorQualifiedEnvelope(params, raw, address) ==
  LET qualified == FirstOrSelf(raw)
  IN  [method |-> "isVendorQualified",
       params |-> [vendorId |-> params.vendorId],
       result |-> qualified,
       contractCall |->
         [circuit |-> "isVendorQualified",
          input |-> "[" \o IntToString(params.vendorId) \o "]",
          output |-> OutputOf(raw),
          status |-> IF qualified = JSBool(TRUE) THEN "QUALIFIED"
                     ELSE "NOT_QUALIFIED",
          privacyNote |->
            "Only yes/no returned. Score and details are never revealed.",
          privacyLevel |-> "PRIVACY_PRESERVING"],
       timestamp |-> Now,
       contractAddress |-> address,
       transactionHash |-> Undefined,
       gasUsed |-> Undefined]

SuccessEnvelope(request, raw, address) ==
  CASE request.method = "verifyQualification" ->
         verifyQualificationEnvelope(request.params, raw, address)
    [] request.method = "checkCompliance" ->
         checkComplianceEnvelope(request.params, raw, address)
    [] request.method = "recordQualification" ->
         recordQualificationEnvelope(request.params, raw, address)
    [] request.method = "isVendorQualified" ->
         isVendorQualifiedEnvelope(request.params, raw, address)

\* What the promise a service method returns settles to: the try block
\* gets the contract (or throws), awaits the call and builds the envelope;
\* the catch clause turns whatever was thrown into the error envelope.
Fulfilled(value) == [state |-> "fulfilled", value |-> value]
Rejected(reason) == [state |-> "rejected", reason |-> reason]

\* Variant: the await of the contract call is outside the try block.
ServiceCompletionWithoutCatch(request, instance, outcome, address) ==
  LET contract == getContractOrThrow(instance)
  IN  IF "throws" \in DOMAIN contract
        THEN Fulfilled(ErrorEnvelope(request, contract.throws, address))
      ELSE IF outcome.kind = "thrown"
        THEN Rejected(outcome.error)
      ELSE Fulfilled(SuccessEnvelope(request, outcome.raw, address))

ServiceCompletion(request, instance, outcome, address) ==
  LET contract == getContractOrThrow(instance)
  IN  IF "throws" \in DOMAIN contract
        THEN Fulfilled(ErrorEnvelope(request, contract.throws, address))
      ELSE IF outcome.kind = "thrown"
        THEN Fulfilled(ErrorEnvelope(request, outcome.error, address))
      ELSE Fulfilled(SuccessEnvelope(request, outcome.raw, address))

\* The ledger after a call made with the given instance.
LedgerAfterCall(instance, outcome, led) ==
  IF instance = JSNull THEN led ELSE outcome.ledger

RequestedAfter(request, ids) ==
  IF request.method = "recordQualification"
    THEN ids \cup {request.params.vendorId}
    ELSE ids

NoException == <<"none">>

\* What made a call fail: the missing instance, or what the contract threw.
FailureOf(instance, outcome) ==
  LET contract == getContractOrThrow(instance)
  IN  IF "throws" \in DOMAIN contract THEN contract.throws
      ELSE IF outcome.kind = "thrown" THEN outcome.error
      ELSE NoException

\* A caller that awaits a service method directly, as the examples do:
\*   const r = await contractService.m(...)
ServiceAwait(request, outcome) ==
  LET completion ==
        ServiceCompletion(request, contractInstance, outcome, contractAddress)
  IN  /\ ledger' = LedgerAfterCall(contractInstance, outcome, ledger)
      /\ requested' = RequestedAfter(request, requested)
      /\ failure' = FailureOf(contractInstance, outcome)
      /\ IF completion.state = "fulfilled"
           THEN returned' = completion.value /\ UNCHANGED escaped
           ELSE escaped' = completion.reason /\ UNCHANGED returned
      /\ UNCHANGED <<cardVars, contractAddress, contractInstance, hookVars>>

ServiceCall(request) ==
  \E outcome \in ContractOutcomes(request, ledger) :
    ServiceAwait(request, outcome) /\ UNCHANGED workflowVars

(***************************************************************************)
(* exampleCompleteWorkflow (the examples file): four awaited calls of the  *)
(* singleton service inside one try block.                                 *)
(***************************************************************************)
\* JavaScript truthiness.
IsTruthy(v) ==
  CASE v[1] = "boolean" -> v[2]
    [] v[1] = "number" -> v[2] # 0
    [] v[1] = "string" -> v[2] # ""
    [] v[1] \in {"undefined", "null", "NaN"} -> FALSE
    [] OTHER -> TRUE

\* response.result, undefined when the envelope has no such key.
ResultOf(envelope) ==
  IF "result" \in DOMAIN envelope THEN envelope.result ELSE Undefined

\* Variant: the workflow goes on whatever the call returned.
GateAlwaysPasses(envelope) == TRUE

\* The negation of  if (!qualifyResult.result) return  and of
\* if (!complianceResult.result) return.
GatePasses(envelope) == IsTruthy(ResultOf(envelope))

WorkflowVerifyRequest ==
  [method |-> "verifyQualification",
   params |-> [vendorScore |-> 85, minimumThreshold |-> 80, salt |-> 12345]]
WorkflowComplianceRequest ==
  [method |-> "checkCompliance",
   params |-> [certificationValid |-> TRUE, insuranceActive |-> TRUE,
               paymentHistoryGood |-> TRUE]]
WorkflowRecordRequest ==
  [method |-> "recordQualification", params |-> [vendorId |-> 999]]
WorkflowStatusRequest ==
  [method |-> "isVendorQualified", params |-> [vendorId |-> 999]]

\* exampleCompleteWorkflow() is called.
workflowStart ==
  /\ workflowPc \in {"idle", "done"}
  /\ workflowPc' = "step1"
  /\ workflowCalls' = <<>>
  /\ UNCHANGED <<cardVars, serviceVars, hookVars, callerVars>>

\* One  await contractService.m(...)  of the workflow and what follows it
\* up to the next await: the gate (when the step has one) returns from the
\* function; a rejection would be caught by the function's catch clause.
WorkflowAwait(pc, request, gated, next) ==
  /\ workflowPc = pc
  /\ \E outcome \in ContractOutcomes(request, ledger) :
       LET completion ==
             ServiceCompletion(request, contractInstance, outcome,
                               contractAddress)
       IN  /\ ServiceAwait(request, outcome)
           /\ IF completion.state = "fulfilled"
                THEN /\ workflowCalls' =
                          Append(workflowCalls,
                                 [method |-> request.method,
                                  envelope |-> completion.value])
                     /\ workflowPc' =
                          IF gated /\ ~GatePasses(completion.value)
                            THEN "done"
                            ELSE next
                ELSE /\ workflowPc' = "done"
                     /\ UNCHANGED workflowCalls

\* Step 1: verifyQualification, then  if (!qualifyResult.result) return.
workflowStep1 ==
  WorkflowAwait("step1", WorkflowVerifyRequest, TRUE, "step2")

\* Step 2: checkCompliance, then  if (!complianceResult.result) return.
workflowStep2 ==
  WorkflowAwait("step2", WorkflowComplianceRequest, TRUE, "step3")

\* Step 3: recordQualification; its result is only logged.
workflowStep3 ==
  WorkflowAwait("step3", WorkflowRecordRequest, FALSE, "step4")

\* Step 4: isVendorQualified, and the function ends.
workflowStep4 ==
  WorkflowAwait("step4", WorkflowStatusRequest, FALSE, "done")

(***************************************************************************)
(* useVendorQualificationContract (hooks/useContractMethods.ts); the four  *)
(* single-method hooks have the same body with states of their own.        *)
(***************************************************************************)
\* Most calls of the hook that are awaiting their service call at once.
MaxInflight == 2

\* JavaScript truthiness of response.error.
HasTruthyError(response) ==
  "error" \in DOMAIN response /\ response.error # ""

RemoveAt(seq, i) ==
  [j \in 1..(Len(seq) - 1) |-> IF j < i THEN seq[j] ELSE seq[j + 1]]

\* setLoading(true); setError(null); the service method runs up to its
\* await (getContractOrThrow reads the instance now).
HookStart(request) ==
  /\ Len(inflight) < MaxInflight
  /\ hookLoading' = TRUE
  /\ hookError' = JSNull
  /\ inflight' = Append(inflight, [request |-> request,
                                   instance |-> contractInstance])
  /\ requested' = RequestedAfter(request, requested)
  /\ UNCHANGED <<cardVars, serviceVars, hookResult, returned, escaped,
                 failure, workflowVars>>

\* The awaited service call settles and the hook method resumes:
\* try { setResult(response); if (response.error) setError(response.error);
\* return response } catch (err) { setError(message); throw err }
\* finally { setLoading(false) }
HookSettle(i) ==
  /\ i \in 1..Len(inflight)
  /\ \E outcome \in ContractOutcomes(inflight[i].request, ledger) :
       LET call == inflight[i]
           completion ==
             ServiceCompletion(call.request, call.instance, outcome,
                               contractAddress)
       IN  /\ ledger' = LedgerAfterCall(call.instance, outcome, ledger)
           /\ failure' = FailureOf(call.instance, outcome)
           /\ IF completion.state = "fulfilled"
                THEN /\ hookResult' = completion.value
                     /\ hookError' =
                          IF HasTruthyError(completion.value)
                            THEN JSString(completion.value.error)
                            ELSE hookError
                     /\ returned' = completion.value
                     /\ UNCHANGED escaped
                ELSE /\ hookError' = JSString(ErrorMessage(completion.reason))
                     /\ escaped' = completion.reason
                     /\ UNCHANGED <<hookResult, returned>>
  /\ hookLoading' = FALSE
  /\ inflight' = RemoveAt(inflight, i)
  /\ UNCHANGED <<cardVars, contractAddress, contractInstance, requested,
                 workflowVars>>

(***************************************************************************)
(* Presentation: the success flag each card hands to ResultBox, and what   *)
(* ResultBox shows for it (components/ResultBox.tsx).                      *)
(***************************************************************************)
\* Variant: the flag is the result itself,  success={result.result}.
ResultIsTruthy(data) ==
  "result" \in DOMAIN data /\ data.result = JSBool(TRUE)

\* 'result' in result && result.result !== undefined
ResultInAndDefined(data) ==
  "result" \in DOMAIN data /\ data.result # Undefined

\* !('error' in result)
NoErrorIn(data) == "error" \notin DOMAIN data

\* The header of the box: success ? 'Success' : 'Error'.
ResultBoxTitle(success) == IF success THEN "Success" ELSE "Error"

\* {result && <ResultBox success={...} data={result} />} of the four boxes.
NotRendered == "not rendered"

VerifyResultBox(data) ==
  IF data = Null THEN NotRendered
  ELSE ResultBoxTitle(ResultInAndDefined(data))

ComplianceResultBox(data) ==
  IF data = Null THEN NotRendered
  ELSE ResultBoxTitle(ResultInAndDefined(data))

RecordResultBox(data) ==
  IF data = Null THEN NotRendered
  ELSE ResultBoxTitle(NoErrorIn(data))

StatusResultBox(data) ==
  IF data = Null THEN NotRendered
  ELSE ResultBoxTitle(ResultInAndDefined(data))

\* The envelope a card's catch clause builds.
CardErrorEnvelope(method, error) ==
  [method |-> method,
   error |-> ErrorMessage(error),
   timestamp |-> Now]

(***************************************************************************)
(* Specifications.                                                         *)
(***************************************************************************)
InitCards ==
  /\ debugInfo = Null
  /\ vendorsRegistry = {}
  /\ vqResult = Null
  /\ vqLoading = FALSE
  /\ certification = TRUE
  /\ insurance = TRUE
  /\ paymentHistory = TRUE
  /\ ccResult = Null
  /\ ccLoading = FALSE
  /\ vrResult = Null
  /\ statusResult = Null
  /\ vrLoading = FALSE
  /\ recorded = {}
  /\ contractInstance = JSNull
  /\ ledger = {}
  /\ hookLoading = FALSE
  /\ hookResult = Null
  /\ hookError = JSNull
  /\ inflight = <<>>
  /\ returned = Null
  /\ escaped = NoException
  /\ failure = NoException
  /\ requested = {}
  /\ updateQueue = <<>>
  /\ committed = 0
  /\ workflowPc = "idle"
  /\ workflowCalls = <<>>

\* The VerifyQualification card alone, with any texts typed into its fields.
InitVerify ==
  /\ InitCards
  /\ contractAddress = CONFIG_ADDRESS
  /\ vendorScore \in Texts
  /\ minimumThreshold \in Texts
  /\ salt \in Texts

NextVerify == handleVerify

SpecVerify == InitVerify /\ [][NextVerify]_vars

\* The VendorRegistry card and the App registry, with any texts as ids.
InitRegistry ==
  /\ InitCards
  /\ contractAddress = CONFIG_ADDRESS
  /\ vendorScore = <<>>
  /\ minimumThreshold = <<>>
  /\ salt = <<>>

NextRegistry ==
  \/ \E text \in Texts : handleRecord(text)
  \/ \E text \in Texts : handleCheck(text)

SpecRegistry == InitRegistry /\ [][NextRegistry]_vars

\* The VendorRegistry card with records that pile up before a render.
NextBatch ==
  \/ \E text \in ScenarioIds : handleRecordQueued(text)
  \/ commitRender
  \/ \E text \in ScenarioIds : handleCheck(text)

SpecBatch == InitRegistry /\ [][NextBatch]_vars

\* The forms with any of their fields left empty.
InitForms ==
  /\ InitCards
  /\ contractAddress = CONFIG_ADDRESS
  /\ vendorScore \in {<<>>} \cup ScenarioScores
  /\ minimumThreshold \in {<<>>, ScenarioThreshold}
  /\ salt \in {<<>>, ScenarioSalt}

NextForms ==
  \/ handleVerify
  \/ \E text \in ScenarioIds : handleRecord(text)
  \/ \E text \in ScenarioIds : handleCheck(text)

SpecForms == InitForms /\ [][NextForms]_vars

\* The whole application on the scenarios of the design document.
Init ==
  /\ InitCards
  /\ contractAddress = CONFIG_ADDRESS
  /\ vendorScore \in ScenarioScores
  /\ minimumThreshold = ScenarioThreshold
  /\ salt = ScenarioSalt

Next ==
  \/ handleVerify
  \/ \E checked \in BOOLEAN : setCertification(checked)
  \/ \E checked \in BOOLEAN : setInsurance(checked)
  \/ \E checked \in BOOLEAN : setPaymentHistory(checked)
  \/ handleCheckCompliance
  \/ \E text \in ScenarioIds : handleRecord(text)
  \/ \E text \in ScenarioIds : handleCheck(text)

Spec == Init /\ [][Next]_vars

\* The two implementations of circuits 3 and 4 side by side: the service,
\* called by a caller that awaits each call, and the VendorRegistry card.
InitService ==
  /\ InitCards
  /\ contractAddress \in ContractAddresses
  /\ vendorScore = <<>>
  /\ minimumThreshold = <<>>
  /\ salt = <<>>

NextService ==
  \/ \E instance \in {JSNull, ContractInstance} : bindContractInstance(instance)
  \/ \E request \in Requests : ServiceCall(request)
  \/ \E text \in ServiceIdTexts : handleRecord(text)
  \/ \E text \in ServiceIdTexts : handleCheck(text)

SpecService == InitService /\ [][NextService]_vars

\* The hook wrapper over the exported singleton  contractService  (built
\* with the default address), with calls that overlap.
InitHook ==
  /\ InitCards
  /\ contractAddress = CONFIG_ADDRESS
  /\ vendorScore = <<>>
  /\ minimumThreshold = <<>>
  /\ salt = <<>>

NextHook ==
  \/ \E instance \in {JSNull, ContractInstance} : bindContractInstance(instance)
  \/ \E request \in HookRequests : HookStart(request)
  \/ \E i \in 1..MaxInflight : HookSettle(i)

SpecHook == InitHook /\ [][NextHook]_vars

\* exampleCompleteWorkflow run on the exported singleton, which may get a
\* contract bound or unbound between two awaits.
NextWorkflow ==
  \/ \E instance \in {JSNull, ContractInstance} : bindContractInstance(instance)
  \/ workflowStart
  \/ workflowStep1
  \/ workflowStep2
  \/ workflowStep3
  \/ workflowStep4

SpecWorkflow == InitHook /\ [][NextWorkflow]_vars

(***************************************************************************)
(* Claims.                                                                 *)
(***************************************************************************)

\* C1: whenever handleVerify runs on fields holding the integers s and t and
\* any non-empty salt, the envelope it stores has result (s >= t) and no
\* error; the salt does not enter the result.
C1_VerifyResultIsScoreAtLeastThreshold ==
  [][(/\ handleVerify
      /\ IsIntegerText(vendorScore)
      /\ IsIntegerText(minimumThreshold)
      /\ salt # <<>>)
     => /\ vqResult' # Null
        /\ vqResult'.method = "verifyQualification"
        /\ "error" \notin DOMAIN vqResult'
        /\ vqResult'.result =
             JSBool(IntegerOf(vendorScore) >= IntegerOf(minimumThreshold))
        /\ debugInfo' = vqResult']_vars

\* C1 witness: a verification of two integers with a salt that is not even
\* a number has answered false.
C1_Witness ==
  /\ vqResult # Null
  /\ IsIntegerText(vendorScore)
  /\ IsIntegerText(minimumThreshold)
  /\ IntegerOf(vendorScore) < IntegerOf(minimumThreshold)
  /\ parseInt(salt) = NaN
  /\ vqResult.result = JSBool(FALSE)

\* C2: whenever handleCheck of CheckCompliance runs, the envelope it stores
\* has as result the conjunction of the three checkboxes, and no error.
C2_ComplianceResultIsConjunction ==
  [][handleCheckCompliance
     => /\ ccResult'.method = "checkCompliance"
        /\ "error" \notin DOMAIN ccResult'
        /\ (ccResult'.result = JSBool(TRUE)) <=>
             (certification = TRUE /\ insurance = TRUE /\ paymentHistory = TRUE)
        /\ ccResult'.result \in {JSBool(TRUE), JSBool(FALSE)}
        /\ debugInfo' = ccResult']_vars

\* C2 witness: (true, false, true) has been checked and answered false.
C2_Witness ==
  /\ ccResult # Null
  /\ ccResult.params.certificationValid
  /\ ~ccResult.params.insuranceActive
  /\ ccResult.params.paymentHistoryGood
  /\ ccResult.result = JSBool(FALSE)

\* The number each text of the bounded input set parses to.
ParsedTexts == [text \in Texts |-> parseInt(text)]

\* C3: a status check of id v answers true exactly when v has been recorded
\* before the check: false before any record of v, true on the first check
\* after a record of v returned.
C3_StatusCheckReadsCurrentRegistry ==
  [][\A text \in Texts :
       (/\ text # <<>>
        /\ statusResult' # Null
        /\ statusResult'.params.vendorId = ParsedTexts[text]
        /\ handleCheck(text))
       => /\ statusResult'.method = "isVendorQualified"
          /\ statusResult'.params.vendorId = parseInt(text)
          /\ IsIntegerText(text)
               => statusResult'.params.vendorId = Num(IntegerOf(text))
          /\ statusResult'.result = JSBool(parseInt(text) \in recorded)]_vars

\* C3 witness: id 1 was recorded and then checked, and the check said true,
\* with another id in the registry.
C3_Witness ==
  /\ statusResult # Null
  /\ statusResult.params.vendorId = Num(1)
  /\ statusResult.result = JSBool(TRUE)
  /\ vrResult # Null
  /\ Num(0) \in vendorsRegistry

\* C4: recording an id leaves it in the registry with a normal envelope, and
\* recording an id that is already there leaves the registry as it was.
C4_RecordIsIdempotent ==
  [][\A text \in Texts :
       (/\ text # <<>>
        /\ vrResult' # Null
        /\ vrResult'.params.vendorId = ParsedTexts[text]
        /\ handleRecord(text))
       => /\ parseInt(text) \in vendorsRegistry'
          /\ vrResult'.method = "recordQualification"
          /\ "error" \notin DOMAIN vrResult'
          /\ parseInt(text) \in vendorsRegistry
               => vendorsRegistry' = vendorsRegistry]_vars

\* C4 witness: id 1 is recorded (its envelope is the latest) and another id
\* is in the registry too, so that a second record of 1 is possible.
C4_Witness ==
  /\ vrResult # Null
  /\ vrResult.params.vendorId = Num(1)
  /\ {Num(1), Num(0)} \subseteq vendorsRegistry

\* C5: the size of the registry is the number of distinct ids recorded.
C5_RegistrySizeIsDistinctRecorded ==
  Cardinality(vendorsRegistry) = Cardinality(recorded)

\* C5 witness: three distinct ids have been recorded.
C5_Witness == Cardinality(recorded) = 3 /\ vrResult # Null

\* C6: no step removes an id from the registry, and a status check of an id
\* recorded earlier answers true whatever ran in between.
C6_RegistryNeverShrinks ==
  [][/\ vendorsRegistry \subseteq vendorsRegistry'
     /\ recorded \subseteq vendorsRegistry'
     /\ \A text \in ScenarioIds :
          (text # <<>> /\ handleCheck(text) /\ parseInt(text) \in recorded)
          => statusResult'.result = JSBool(TRUE)]_vars

\* C6 witness: 999 was recorded, verify and compliance ran, and a status
\* check of 999 said true.
C6_Witness ==
  /\ Num(999) \in recorded
  /\ vqResult # Null
  /\ ccResult # Null
  /\ statusResult # Null
  /\ statusResult.params.vendorId = Num(999)
  /\ statusResult.result = JSBool(TRUE)
  /\ debugInfo = ccResult

\* C7: a step of verify-qualification, check-compliance or status check
\* leaves the registry as it was, and every step that changes the registry
\* is a step of the record operation.
C7_OnlyRecordChangesRegistry ==
  [][/\ (\/ handleVerify
         \/ handleCheckCompliance
         \/ \E text \in ScenarioIds : handleCheck(text))
        => vendorsRegistry' = vendorsRegistry
     /\ vendorsRegistry' # vendorsRegistry
        => \E text \in ScenarioIds : handleRecord(text)]_vars

\* C7 witness: the three other operations have all run on a registry that
\* holds an id.
C7_Witness ==
  /\ vendorsRegistry # {}
  /\ vqResult # Null
  /\ ccResult # Null
  /\ statusResult # Null

\* C8: a status check of a vendor id that was never recorded returns an
\* envelope with result false and no error field, from the VendorRegistry
\* card and from the service's isVendorQualified alike.
C8_UnrecordedStatusCheckIsFalseNotError ==
  /\ (statusResult # Null /\ statusResult.params.vendorId \notin recorded)
       => /\ "error" \notin DOMAIN statusResult
          /\ statusResult.result = JSBool(FALSE)
  /\ (/\ returned # Null
      /\ returned.method = "isVendorQualified"
      /\ returned.params.vendorId \notin requested)
       => /\ "error" \notin DOMAIN returned
          /\ "result" \in DOMAIN returned
          /\ returned.result = JSBool(FALSE)

\* An envelope has a boolean result; an envelope has an error.
HasBooleanResult(envelope) ==
  "result" \in DOMAIN envelope /\ envelope.result[1] = "boolean"

HasError(envelope) == "error" \in DOMAIN envelope

ExactlyOneOfResultAndError(envelope) ==
  IF envelope.method = "recordQualification"
    THEN ~(HasBooleanResult(envelope) /\ HasError(envelope))
    ELSE HasBooleanResult(envelope) # HasError(envelope)

\* C9: every envelope an operation has returned, from the service or from
\* the VendorRegistry card, has either a boolean result or an error, never
\* both and never neither; only an envelope of the record operation may
\* have neither.
C9_ExactlyOneOfResultAndError ==
  /\ returned # Null => ExactlyOneOfResultAndError(returned)
  /\ vrResult # Null => ExactlyOneOfResultAndError(vrResult)
  /\ statusResult # Null => ExactlyOneOfResultAndError(statusResult)

\* C9 witness: the service answered a status check with an error and no
\* result, the card answered one with a boolean and no error, and the
\* record envelope of the card has neither.
C9_Witness ==
  /\ returned # Null
  /\ returned.method = "isVendorQualified"
  /\ HasError(returned)
  /\ ~HasBooleanResult(returned)
  /\ statusResult # Null
  /\ HasBooleanResult(statusResult)
  /\ ~HasError(statusResult)
  /\ vrResult # Null
  /\ ~HasBooleanResult(vrResult)
  /\ ~HasError(vrResult)

\* An error-shaped envelope: method, error message, timestamp, no result.
ErrorShaped(envelope) ==
  /\ envelope # Null
  /\ {"method", "error", "timestamp"} \subseteq DOMAIN envelope
  /\ "result" \notin DOMAIN envelope

\* C10: nothing is ever thrown or rejected to a caller of a service method
\* or of a hook method, and when the latest call failed (no contract
\* instance, or the contract call threw) the caller got the error-shaped
\* envelope carrying the failure's message.
C10_NoExceptionEscapesACallSite ==
  /\ escaped = NoException
  /\ failure # NoException
       => /\ ErrorShaped(returned)
          /\ returned.error = ErrorMessage(failure)

\* C10 witness: the contract call of a hook call threw, the hook returned
\* the error-shaped envelope and holds the message as its error.
C10_Witness ==
  /\ failure = JSError("network failure")
  /\ ErrorShaped(returned)
  /\ hookResult = returned
  /\ hookError = JSString("network failure")
  /\ ~hookLoading

\* The ids of the updates a queue holds.
QueuedIds(queue) == {queue[i].vendorId : i \in DOMAIN queue}

\* C11: no record is lost, however many are issued before a render: the
\* registry together with the queued updates is exactly the ids recorded,
\* and once the queue has been applied the registry is the union of the
\* initial (empty) registry and every recorded id.
C11_NoRecordIsLost ==
  /\ vendorsRegistry \cup QueuedIds(updateQueue) = recorded
  /\ updateQueue = <<>> => vendorsRegistry = recorded

\* C11 witness: one render applied two queued records of different ids and
\* both are in the registry.
C11_Witness ==
  /\ committed = 2
  /\ updateQueue = <<>>
  /\ vendorsRegistry = {Num(999), Num(123)}
  /\ recorded = vendorsRegistry

\* What a box shows for an envelope, against the envelope's error field.
ShownFailedIffError(title, envelope) ==
  title # NotRendered => ((title = "Error") <=> ("error" \in DOMAIN envelope))

\* C12: each of the four result boxes shows 'Error' exactly when the
\* envelope it shows carries an error: an envelope with result false and a
\* record envelope (no boolean result) are shown as 'Success', and the error
\* envelope a card's catch clause builds is shown as 'Error'.
C12_FailureShownIffError ==
  /\ ShownFailedIffError(VerifyResultBox(vqResult), vqResult)
  /\ ShownFailedIffError(ComplianceResultBox(ccResult), ccResult)
  /\ ShownFailedIffError(RecordResultBox(vrResult), vrResult)
  /\ ShownFailedIffError(StatusResultBox(statusResult), statusResult)
  /\ \A error \in ThrownValues :
       /\ VerifyResultBox(CardErrorEnvelope("verifyQualification", error))
            = "Error"
       /\ ComplianceResultBox(CardErrorEnvelope("checkCompliance", error))
            = "Error"
       /\ RecordResultBox(CardErrorEnvelope("recordQualification", error))
            = "Error"
       /\ StatusResultBox(CardErrorEnvelope("isVendorQualified", error))
            = "Error"

\* C12 witness: the three boolean operations all answered false, a record
\* was made, and the four boxes show 'Success'.
C12_Witness ==
  /\ vqResult # Null /\ vqResult.result = JSBool(FALSE)
  /\ ccResult # Null /\ ccResult.result = JSBool(FALSE)
  /\ statusResult # Null /\ statusResult.result = JSBool(FALSE)
  /\ vrResult # Null /\ vrResult.result = JSNull
  /\ VerifyResultBox(vqResult) = "Success"
  /\ ComplianceResultBox(ccResult) = "Success"
  /\ StatusResultBox(statusResult) = "Success"
  /\ RecordResultBox(vrResult) = "Success"

\* A successful record envelope reports the registry size after the
\* insertion and the ledger-update description.
ReportsRegistrySize(envelope, size) ==
  /\ "ledgerUpdate" \in DOMAIN envelope.contractCall
  /\ "registrySize" \in DOMAIN envelope.contractCall
  /\ envelope.contractCall.registrySize = Num(size)

\* C13: the envelope of every successful record operation, from the
\* VendorRegistry card and from the service, carries
\* contractCall.registrySize, the number of distinct ids recorded so far,
\* together with the ledger-update description.
C13_RecordEnvelopeReportsRegistrySize ==
  /\ (vrResult # Null /\ "error" \notin DOMAIN vrResult)
       => ReportsRegistrySize(vrResult, Cardinality(recorded))
  /\ (/\ returned # Null
      /\ returned.method = "recordQualification"
      /\ "error" \notin DOMAIN returned)
       => ReportsRegistrySize(returned, Cardinality(ledger))

\* The status label a status-check envelope must carry for its result.
LabelMatchesResult(envelope) ==
  /\ envelope.result \in {JSBool(TRUE), JSBool(FALSE)}
  /\ envelope.contractCall.status =
       IF envelope.result = JSBool(TRUE) THEN "QUALIFIED" ELSE "NOT_QUALIFIED"

\* C14: in every status-check envelope, from the VendorRegistry card and
\* from the service, the status label is 'QUALIFIED' when the result is
\* true and 'NOT_QUALIFIED' when it is false, and nothing else.
C14_StatusLabelMatchesResult ==
  /\ (statusResult # Null /\ "error" \notin DOMAIN statusResult)
       => LabelMatchesResult(statusResult)
  /\ (/\ returned # Null
      /\ returned.method = "isVendorQualified"
      /\ "error" \notin DOMAIN returned)
       => LabelMatchesResult(returned)

\* The registries a status check is compared across: every set of the
\* scenario ids and of two ids beyond them.
OtherRegistries ==
  SUBSET ({parseInt(text) : text \in ScenarioIds \ {<<>>}} \cup {Num(1), NaN})

\* C15: the envelope a status check of id v stores is the one the check
\* would store on any other registry that agrees on whether v is a member:
\* nothing else of the registry shows in it.
C15_StatusCheckRevealsOnlyMembership ==
  [][\A text \in ScenarioIds :
       (text # <<>> /\ handleCheck(text))
       => \A other \in OtherRegistries :
            ((parseInt(text) \in other) <=> (parseInt(text) \in vendorsRegistry))
            => StatusEnvelopeFrom(other, parseInt(text)) = statusResult']_vars

\* C15 witness: 123 was checked and answered false on a registry that holds
\* another id.
C15_Witness ==
  /\ statusResult # Null
  /\ statusResult.params.vendorId = Num(123)
  /\ statusResult.result = JSBool(FALSE)
  /\ vendorsRegistry = {Num(999)}
  /\ debugInfo = statusResult

\* An envelope carries the contract address the service was built with.
CarriesContractAddress(envelope) ==
  /\ "contractAddress" \in DOMAIN envelope
  /\ envelope.contractAddress = contractAddress

\* C16: every envelope an operation has returned, success or error, from
\* the service or from a card, carries the configured contract address.
C16_EveryEnvelopeCarriesContractAddress ==
  /\ returned # Null => CarriesContractAddress(returned)
  /\ vrResult # Null => CarriesContractAddress(vrResult)
  /\ statusResult # Null => CarriesContractAddress(statusResult)

\* The envelope the latest direct call on the exported singleton (the
\* service built with CONTRACT_CONFIG.ADDRESS) returned for the method.
SingletonReturned(method) ==
  /\ contractAddress = CONFIG_ADDRESS
  /\ returned # Null
  /\ returned.method = method

\* C17: verifyQualification on the exported singleton returns an envelope
\* with no error whose result is true when vendorScore >= minimumThreshold
\* and false otherwise.
C17_SingletonVerifyAnswersComparison ==
  SingletonReturned("verifyQualification")
    => /\ "error" \notin DOMAIN returned
       /\ "result" \in DOMAIN returned
       /\ returned.result =
            JSBool(returned.params.vendorScore
                     >= returned.params.minimumThreshold)

\* C18: on the exported singleton, isVendorQualified(v) returns result true
\* once recordQualification(v) has returned, and result false for an id
\* never recorded.
C18_SingletonRecordThenQuery ==
  SingletonReturned("isVendorQualified")
    => /\ "result" \in DOMAIN returned
       /\ returned.result = JSBool(returned.params.vendorId \in requested)

\* The debug information holds an envelope: it is one envelope (or null),
\* never a list, so it holds an envelope only by being it.
DebugInfoHolds(envelope) == debugInfo = envelope

\* C19: the debug information held by the app contains the envelope of
\* every call made so far; in particular the latest envelope of each card
\* that has run.
C19_DebugInfoHoldsEveryCall ==
  /\ vqResult # Null => DebugInfoHolds(vqResult)
  /\ ccResult # Null => DebugInfoHolds(ccResult)
  /\ vrResult # Null => DebugInfoHolds(vrResult)
  /\ statusResult # Null => DebugInfoHolds(statusResult)

\* Scores to compare a verification against, on either side of the
\* scenario threshold.
OtherScores == {90, 70}

\* The envelope's detail outside the echoed input (params and
\* contractCall.input) is what a call with the other score, and the same
\* answer from the contract, would have returned.
DetailIndependentOfScore(envelope, other) ==
  LET params == [vendorScore |-> other,
                 minimumThreshold |-> envelope.params.minimumThreshold,
                 salt |-> 12345]
  IN  \E raw \in {envelope.result, JSArray(<<envelope.result>>)} :
        LET twin == verifyQualificationEnvelope(params, raw,
                                                envelope.contractAddress)
        IN  /\ twin.result = envelope.result
            /\ \A field \in DOMAIN envelope.contractCall \ {"input"} :
                 twin.contractCall[field] = envelope.contractCall[field]

\* C20: the envelope of a successful verification that the hook keeps as
\* its result after the call holds the raw score nowhere but in the echoed
\* input: every other detail is the same for any other score with the same
\* outcome.
C20_ScoreNotRetainedAfterCall ==
  (/\ hookResult # Null
   /\ hookResult.method = "verifyQualification"
   /\ "error" \notin DOMAIN hookResult)
    => \A other \in OtherScores :
         ((other >= hookResult.params.minimumThreshold)
            <=> (hookResult.params.vendorScore
                   >= hookResult.params.minimumThreshold))
         => DetailIndependentOfScore(hookResult, other)

C23_RegistryIdsAreNonNegative ==
  \A vendorId \in vendorsRegistry : IsNumber(vendorId) /\ vendorId[2] >= 0

\* C22: no started call is ever suspended on something external: every
\* call the hook has started and not finished is one that had no contract
\* to wait for.
C22_NoCallWaitsOnAnythingExternal ==
  \A i \in DOMAIN inflight : inflight[i].instance = JSNull

\* The fields of the envelope of a catch clause of the service.
ErrorEnvelopeFields ==
  {"method", "params", "error", "timestamp", "contractAddress"}

C25_ResultIsTheContractsValue ==
  [][\A request \in Requests :
       (/\ request.method # "recordQualification"
        /\ contractInstance # JSNull
        /\ ServiceCall(request)
        /\ failure' = NoException)
       => /\ "error" \notin DOMAIN returned'
          /\ returned'.method = request.method
          /\ returned'.result = ContractResult(request, ledger)]_vars

\* C25 witness: the contract answered a status check of a recorded id with
\* an array holding true, and the envelope's result is true.
C25_Witness ==
  /\ returned # Null
  /\ returned.method = "isVendorQualified"
  /\ "error" \notin DOMAIN returned
  /\ returned.contractCall.output = JSString("[true]")
  /\ returned.result = JSBool(TRUE)

\* C26: the hook's loading flag is true exactly while a call is in flight.
C26_LoadingWhileAnyCallInFlight ==
  hookLoading <=> (inflight # <<>>)

\* C27: whenever no call is in flight the hook's error is non-null exactly
\* when the envelope held as result carries an error, and is then that
\* envelope's error message.
C27_ErrorAgreesWithResultAtRest ==
  inflight = <<>>
    => /\ (hookError # JSNull)
            <=> (hookResult # Null /\ "error" \in DOMAIN hookResult)
       /\ hookError # JSNull => hookError = JSString(hookResult.error)

\* What an early return must leave alone: the registry, the stored
\* results, the debug information and the loading flags.
EarlyReturnFrame ==
  <<vendorsRegistry, recorded, vqResult, ccResult, vrResult, statusResult,
    debugInfo, vqLoading, ccLoading, vrLoading>>

\* C28: a handler run with a required field empty (handleVerify with the
\* score, the threshold or the salt empty, handleRecord or handleCheck with
\* no vendor id) produces no envelope and leaves the registry, the stored
\* results, the debug information and the loading flags unchanged.
C28_EmptyFieldReturnsEarly ==
  [][/\ (/\ (vendorScore = <<>> \/ minimumThreshold = <<>> \/ salt = <<>>)
         /\ handleVerify) => UNCHANGED EarlyReturnFrame
     /\ handleRecord(<<>>) => UNCHANGED EarlyReturnFrame
     /\ handleCheck(<<>>) => UNCHANGED EarlyReturnFrame]_vars

\* C28 witness: the verify form has its score and threshold filled and its
\* salt empty, the registry card has recorded and checked ids, and the
\* verify card still has no result.
C28_Witness ==
  /\ vendorScore # <<>>
  /\ minimumThreshold # <<>>
  /\ salt = <<>>
  /\ vqResult = Null
  /\ vrResult # Null
  /\ statusResult # Null
  /\ vendorsRegistry # {}

\* The texts of the record field that stand for a given id.
TextsOf ==
  [id \in {ParsedTexts[text] : text \in Texts \ {<<>>}} |->
     {text \in Texts \ {<<>>} : ParsedTexts[text] = id}]

\* Ids no record need have touched, to check next to the ids held.
ProbeIds == {Num(0), Num(1), Num(2), Num(-1), NaN}

\* The envelope a status check of an id builds, by the id and by whether
\* the registry holds it.
StatusEnvelopes ==
  [id \in DOMAIN TextsOf \cup ProbeIds |->
     [qualified \in BOOLEAN |-> StatusResponse(id, qualified)]]

\* C30: recording vendor id v changes the membership of v only: a status
\* check of any other id w gives the same envelope just before and just
\* after the record of v. The ids w are the ones the registry holds before
\* or after the record, the id of the latest status check, and the probe
\* ids.
C30_RecordChangesOnlyItsOwnId ==
  [][(vrResult' # Null /\ statusResult' = statusResult) =>
       \A text \in TextsOf[vrResult'.params.vendorId] :
         handleRecord(text)
         => \A w \in (vendorsRegistry \cup vendorsRegistry' \cup ProbeIds
                     \cup (IF statusResult = Null THEN {}
                           ELSE {statusResult.params.vendorId}))
                    \ {ParsedTexts[text]} :
              StatusEnvelopes[w][isQualified(vendorsRegistry', w)]
                = StatusEnvelopes[w][isQualified(vendorsRegistry, w)]]_vars

\* C30 witness: id 1 was recorded into a registry that held id 0 and not
\* id 2, and the latest check of id 0 had answered true.
C30_Witness ==
  /\ vrResult # Null
  /\ vrResult.params.vendorId = Num(1)
  /\ Num(0) \in vendorsRegistry
  /\ Num(2) \notin vendorsRegistry
  /\ statusResult # Null
  /\ statusResult.params.vendorId = Num(0)
  /\ statusResult.result = JSBool(TRUE)

\* The order of the calls of the workflow.
WorkflowOrder ==
  <<"verifyQualification", "checkCompliance", "recordQualification",
    "isVendorQualified">>

\* An envelope whose result is true: no error envelope is one.
ReturnedTrue(envelope) ==
  /\ "result" \in DOMAIN envelope
  /\ envelope.result = JSBool(TRUE)
  /\ "error" \notin DOMAIN envelope

\* C29: the calls exampleCompleteWorkflow has made are, in order,
\* verifyQualification, checkCompliance, recordQualification and
\* isVendorQualified, each made after the one before returned;
\* checkCompliance is made only if verifyQualification returned true,
\* recordQualification only if checkCompliance returned true too, and a
\* run whose gate failed has ended without a later call.
C29_WorkflowStepsAreOrderedAndGated ==
  LET n == Len(workflowCalls)
  IN  /\ n <= 4
      /\ \A i \in 1..n : workflowCalls[i].method = WorkflowOrder[i]
      /\ n >= 2 => ReturnedTrue(workflowCalls[1].envelope)
      /\ n >= 3 => ReturnedTrue(workflowCalls[2].envelope)
      /\ (n \in {1, 2} /\ ~ReturnedTrue(workflowCalls[n].envelope))
           => workflowPc = "done"
      /\ workflowPc = "step1" => n = 0
      /\ workflowPc = "step2" => n = 1
      /\ workflowPc = "step3" => n = 2
      /\ workflowPc = "step4" => n = 3

\* C29 witness: a run passed the first gate and ended at the second, where
\* checkCompliance returned an error envelope.
C29_Witness ==
  /\ Len(workflowCalls) = 2
  /\ workflowPc = "done"
  /\ workflowCalls[1].envelope.result = JSBool(TRUE)
  /\ "error" \in DOMAIN workflowCalls[2].envelope

=============================================================================
